---- MODULE Spec2Model ----
(***************************************************************************)
(* Model of the Streamlit image editor in main.py.                         *)
(*                                                                         *)
(* Streamlit executes the whole script (main) from top to bottom once per  *)
(* user interaction.  Only st.session_state and the values held by the     *)
(* widgets survive from one execution to the next.  A button returns True  *)
(* only in the execution its click triggered, so at most one button is     *)
(* "clicked" per execution.  A widget that an execution does not reach     *)
(* loses its value and shows its default the next time it is created.      *)
(*                                                                         *)
(* One action of the model is one user interaction: the widget value it    *)
(* changes or the button it clicks, then the complete execution of main    *)
(* (and the second execution that st.experimental_rerun asks for).         *)
(***************************************************************************)
EXTENDS Integers, Sequences, FiniteSets, TLC

\* Largest number of points the model lets the session hold: two for each
\* committed annotation, one for a pending start point.
MaxPoints == 4
\* Largest small coordinate handed to handle_point_addition under SpecLabel.
MaxCoord == 4

None == "None"
\* start_point is None or an (x, y) tuple; the empty tuple stands for None.
NoPoint == <<>>

Tools == <<"select", "line", "measure">>
ToolSet == {Tools[i] : i \in 1..Len(Tools)}

DefaultColor == "#FF0000"
ColorPicks == {"#FF0000", "#0000FF"}
DefaultWidth == 2

\* Files the user may put in the uploader.
Files == {"a.png", "b.jpg", "bad.png"}

\* Places where an external collaborator may raise during one execution:
\*   "copy"     image.copy(), line 47 (PIL decodes the file there)
\*   "remove"   remove(image), line 56
\*   "display"  the matplotlib calls of display_image_with_drawing_tools
\*   "export"   the matplotlib calls of get_annotated_image
\*   "bgsave"   bg_removed_image.save(...), line 97
FailPoints == {"none", "copy", "remove", "display", "export", "bgsave"}

VARIABLES
    \* st.session_state
    drawings, current_tool, bg_removed_image, original_image, active_image,
    start_point, fig, original_filename,
    \* values held by the widgets
    uploaded_file, tool_radio, color, line_width, x, y,
    \* what the last execution put on the page
    shown, pyplot, download, errors,
    \* history of the last interaction
    clicked, call, fault, submitted, discarded,
    \* history of the gesture in flight, kept when follow_gesture is set
    gesture_tool, gesture_parked, follow_gesture

session == <<drawings, current_tool, bg_removed_image, original_image,
             active_image, start_point, fig, original_filename>>
widgets == <<uploaded_file, tool_radio, color, line_width, x, y>>
page == <<shown, pyplot, download, errors>>
history == <<clicked, call, fault, submitted, discarded, gesture_tool,
             gesture_parked, follow_gesture>>
vars == <<session, widgets, page, history>>

----------------------------------------------------------------------------
(* Images.  An image is named by its content and mode; PIL is external.    *)

Image_open(file) ==
    CASE file = "a.png" -> "A_RGBA"
      [] file = "b.jpg" -> "B_RGB"
      [] OTHER -> None          \* raises: not an image

ImageMode(image) ==
    CASE image = "A_RGBA" -> "RGBA"
      [] image = "A_nobg" -> "RGBA"
      [] image = "B_nobg" -> "RGBA"
      [] OTHER -> "RGB"

Convert(image, mode) ==
    CASE image = "A_RGBA" /\ mode = "RGB" -> "A_RGB"
      [] OTHER -> image

\* rembg.remove, when it succeeds.
remove(image) ==
    CASE image = "A_RGB" -> "A_nobg"
      [] image = "B_RGB" -> "B_nobg"
      [] OTHER -> image

ImageWidth(image) == IF image = None THEN 0 ELSE 1
ImageHeight(image) == IF image = None THEN 0 ELSE 1

splitext(file) ==
    CASE file = "a.png" -> "a"
      [] file = "b.jpg" -> "b"
      [] file = "bad.png" -> "bad"
      [] OTHER -> None

verify_and_convert_image(file) ==
    LET image == Image_open(file) IN
    IF image = None THEN None
    ELSE IF ImageMode(image) \in {"RGBA", "LA", "P"}
         THEN Convert(image, "RGB")
         ELSE image

----------------------------------------------------------------------------
(* st.session_state as a value.                                            *)

InitialSession ==
    [drawings |-> <<>>, current_tool |-> "select", bg_removed_image |-> None,
     original_image |-> None, active_image |-> None, start_point |-> NoPoint,
     fig |-> None, original_filename |-> None]

SS ==
    [drawings |-> drawings, current_tool |-> current_tool,
     bg_removed_image |-> bg_removed_image, original_image |-> original_image,
     active_image |-> active_image, start_point |-> start_point,
     fig |-> fig, original_filename |-> original_filename]

W ==
    [uploaded_file |-> uploaded_file, tool_radio |-> tool_radio,
     color |-> color, line_width |-> line_width, x |-> x, y |-> y]

\* Points the session holds: two for each annotation, one if a start point
\* is pending.
PointsHeld(ss) ==
    2 * Len(ss.drawings) + (IF ss.start_point = NoPoint THEN 0 ELSE 1)

\* st.session_state.get(key, default)
session_state_get(ss, key, default) ==
    IF key \in DOMAIN ss THEN ss[key] ELSE default

reset_session_state(ss) ==
    [ss EXCEPT !.drawings = <<>>, !.current_tool = "select",
               !.bg_removed_image = None, !.original_image = None,
               !.active_image = None, !.start_point = NoPoint,
               !.fig = None]

----------------------------------------------------------------------------
(* Records the handlers hand back to main.                                 *)

\* What a renderer drew: the base image, the Line2D artists, the Text artists.
NoFigure == [image |-> None, lines |-> <<>>, texts |-> <<>>]

\* The last call of handle_point_addition: its arguments and the session
\* just before and just after it.
NoCall ==
    [called |-> FALSE, x |-> 0, y |-> 0,
     before |-> InitialSession, after |-> InitialSession]

\* The last exception an external collaborator raised: where, and the
\* session just before the failing step and just after its handler.
NoFault == [point |-> "none", before |-> InitialSession, after |-> InitialSession]

Fault(point, before, after) == [point |-> point, before |-> before, after |-> after]

FirstFault(f1, f2, f3) ==
    IF f1.point # "none" THEN f1 ELSE IF f2.point # "none" THEN f2 ELSE f3

----------------------------------------------------------------------------
(* handle_point_addition(x, y)                                             *)

Drawing(x0, y0, x1, y1, c, w, measure) ==
    [type |-> "line", x0 |-> x0, y0 |-> y0, x1 |-> x1, y1 |-> y1,
     color |-> c, width |-> w, measure |-> measure]

\* Variants of handle_point_addition with one slip each.
Commit(ss, px, py) ==
    Drawing(ss.start_point[1], ss.start_point[2], px, py,
            session_state_get(ss, "color", DefaultColor),
            session_state_get(ss, "line_width", DefaultWidth),
            ss.current_tool = "measure")

\* ... the start point is not cleared when the line is completed.
handle_point_addition_keeps_start(ss, px, py) ==
    IF ss.current_tool \in {"line", "measure"}
    THEN IF ss.start_point = NoPoint
         THEN [ss |-> [ss EXCEPT !.start_point = <<px, py>>], rerun |-> FALSE]
         ELSE [ss |-> [ss EXCEPT !.drawings = Append(@, Commit(ss, px, py))],
               rerun |-> TRUE]
    ELSE [ss |-> ss, rerun |-> FALSE]

\* ... the tool is not looked at.
handle_point_addition_any_tool(ss, px, py) ==
    IF ss.start_point = NoPoint
    THEN [ss |-> [ss EXCEPT !.start_point = <<px, py>>], rerun |-> FALSE]
    ELSE [ss |-> [ss EXCEPT !.drawings = Append(@, Commit(ss, px, py)),
                            !.start_point = NoPoint],
          rerun |-> TRUE]

\* ... the end point is stored as the start and the start as the end.
handle_point_addition_swapped(ss, px, py) ==
    IF ss.current_tool \in {"line", "measure"}
    THEN IF ss.start_point = NoPoint
         THEN [ss |-> [ss EXCEPT !.start_point = <<px, py>>], rerun |-> FALSE]
         ELSE [ss |-> [ss EXCEPT
                         !.drawings =
                             Append(@, [Commit(ss, px, py) EXCEPT
                                          !.x0 = px, !.y0 = py,
                                          !.x1 = ss.start_point[1],
                                          !.y1 = ss.start_point[2]]),
                         !.start_point = NoPoint],
               rerun |-> TRUE]
    ELSE [ss |-> ss, rerun |-> FALSE]

\* ... the new line is inserted at the front of the list.
handle_point_addition_prepend(ss, px, py) ==
    IF ss.current_tool \in {"line", "measure"}
    THEN IF ss.start_point = NoPoint
         THEN [ss |-> [ss EXCEPT !.start_point = <<px, py>>], rerun |-> FALSE]
         ELSE [ss |-> [ss EXCEPT !.drawings = <<Commit(ss, px, py)>> \o @,
                                 !.start_point = NoPoint],
               rerun |-> TRUE]
    ELSE [ss |-> ss, rerun |-> FALSE]

\* ... the measure flag is never set.
handle_point_addition_no_flag(ss, px, py) ==
    IF ss.current_tool \in {"line", "measure"}
    THEN IF ss.start_point = NoPoint
         THEN [ss |-> [ss EXCEPT !.start_point = <<px, py>>], rerun |-> FALSE]
         ELSE [ss |-> [ss EXCEPT
                         !.drawings = Append(@, [Commit(ss, px, py) EXCEPT
                                                   !.measure = FALSE]),
                         !.start_point = NoPoint],
               rerun |-> TRUE]
    ELSE [ss |-> ss, rerun |-> FALSE]

handle_point_addition(ss, px, py) ==
    IF ss.current_tool \in {"line", "measure"}
    THEN IF ss.start_point = NoPoint
         THEN [ss |-> [ss EXCEPT !.start_point = <<px, py>>], rerun |-> FALSE]
         ELSE LET x0 == ss.start_point[1]
                  y0 == ss.start_point[2]
                  d == Drawing(x0, y0, px, py,
                               session_state_get(ss, "color", DefaultColor),
                               session_state_get(ss, "line_width", DefaultWidth),
                               ss.current_tool = "measure")
              IN [ss |-> [ss EXCEPT !.drawings = Append(@, d),
                                    !.start_point = NoPoint],
                  rerun |-> TRUE]
    ELSE [ss |-> ss, rerun |-> FALSE]

----------------------------------------------------------------------------
(* Rendering.  matplotlib is external: a figure is the list of artists the *)
(* code adds to the axes over the image it shows.                          *)

Line2D(drawing) ==
    [xdata |-> <<drawing.x0, drawing.x1>>, ydata |-> <<drawing.y0, drawing.y1>>,
     color |-> drawing.color, linewidth |-> drawing.width]

\* Largest t with t * t <= n.
Isqrt(n) == CHOOSE t \in 0..n : t * t <= n /\ (t + 1) * (t + 1) > n

\* Tenths with a slip: the distance is cut after the first decimal.
Tenths_floor(d2) == Isqrt(100 * d2)

\* Tenths in f"{distance:.1f}" for distance = d2 ** 0.5: 10 * sqrt(d2) rounded
\* to the nearest integer (no tie exists: (2t + 1)^2 is odd, 400 * d2 even).
Tenths(d2) ==
    LET t == Isqrt(100 * d2) IN
    IF (2 * t + 1) * (2 * t + 1) <= 400 * d2 THEN t + 1 ELSE t

\* f"{distance:.1f} px"
FormatDistance(d2) ==
    ToString(Tenths(d2) \div 10) \o "." \o ToString(Tenths(d2) % 10) \o " px"

\* (a + b) / 2 as a fraction: the midpoint is a float in the code.
Mid(a, b) == [num |-> a + b, den |-> 2]

Text(drawing) ==
    LET dx == drawing.x1 - drawing.x0
        dy == drawing.y1 - drawing.y0
    IN [x |-> Mid(drawing.x0, drawing.x1), y |-> Mid(drawing.y0, drawing.y1),
        s |-> FormatDistance(dx * dx + dy * dy), color |-> drawing.color]

\* DisplayLines with a slip: only the newest annotation is drawn.
DisplayLines_newest(ds) ==
    IF ds = <<>> THEN <<>> ELSE <<Line2D(ds[Len(ds)])>>

RECURSIVE DisplayLines(_)
DisplayLines(ds) ==
    IF ds = <<>> THEN <<>>
    ELSE (IF Head(ds).type = "line" THEN <<Line2D(Head(ds))>> ELSE <<>>)
         \o DisplayLines(Tail(ds))

RECURSIVE DisplayTexts(_)
DisplayTexts(ds) ==
    IF ds = <<>> THEN <<>>
    ELSE (IF Head(ds).type = "line" /\ Head(ds).measure
          THEN <<Text(Head(ds))>> ELSE <<>>)
         \o DisplayTexts(Tail(ds))

\* The value a slider shows: its stored value, or its default max // 2 when
\* it holds none.
SliderValue(state, max) ==
    IF state = <<>> \/ state[1] > max THEN max \div 2 ELSE state[1]

Canvas == {"x", "y", "add_point"}

display_image_with_drawing_tools(ss, w, click, fail) ==
    IF fail = "display"
    THEN [ss |-> ss, pyplot |-> NoFigure, errors |-> {"Display error"},
          shown |-> {}, rerun |-> FALSE, call |-> NoCall,
          fault |-> Fault("display", ss, ss)]
    ELSE LET figure == [image |-> ss.active_image,
                        lines |-> DisplayLines(ss.drawings),
                        texts |-> DisplayTexts(ss.drawings)]
             px == SliderValue(w.x, ImageWidth(ss.active_image))
             py == SliderValue(w.y, ImageHeight(ss.active_image))
             h == handle_point_addition(ss, px, py)
         IN IF click = "add_point"
            THEN [ss |-> h.ss, pyplot |-> figure, errors |-> {},
                  shown |-> Canvas, rerun |-> h.rerun,
                  call |-> [called |-> TRUE, x |-> px, y |-> py,
                            before |-> ss, after |-> h.ss],
                  fault |-> NoFault]
            ELSE [ss |-> ss, pyplot |-> figure, errors |-> {},
                  shown |-> Canvas, rerun |-> FALSE, call |-> NoCall,
                  fault |-> NoFault]

RECURSIVE ExportLines(_)
ExportLines(ds) ==
    IF ds = <<>> THEN <<>>
    ELSE (IF Head(ds).type = "line" THEN <<Line2D(Head(ds))>> ELSE <<>>)
         \o ExportLines(Tail(ds))

get_annotated_image(ss, fail) ==
    IF fail = "export"
    THEN [buf |-> NoFigure, errors |-> {"Error generating annotated image"},
          fault |-> Fault("export", ss, ss)]
    ELSE [buf |-> [image |-> ss.active_image,
                   lines |-> ExportLines(ss.drawings),
                   texts |-> <<>>],
          errors |-> {}, fault |-> NoFault]

----------------------------------------------------------------------------
(* main(): one execution of the script.                                    *)
(*   w     the values the widgets return in this execution                 *)
(*   click the button whose click triggered it, "none" for a value change  *)
(*   fail  the collaborator that raises in it, if the execution gets there *)
(* The model moves the color picker and the X slider; the width slider and *)
(* the Y slider stay where the script puts them.                           *)

Sidebar == {"remove_bg", "tool", "color", "line_width", "clear"}

Out(ss, shown_, pyplot_, download_, errors_, rerun, call_, fault_) ==
    [ss |-> ss, shown |-> shown_, pyplot |-> pyplot_, download |-> download_,
     errors |-> errors_, rerun |-> rerun, call |-> call_, fault |-> fault_,
     discarded |-> 0]

\* RemoveBackground with a slip: the session is written before remove() returns.
RemoveBackground_partial(ss, image, click, fail) ==
    IF click = "remove_bg"
    THEN IF fail = "remove"
         THEN [ss |-> [ss EXCEPT !.bg_removed_image = None,
                                 !.active_image = None],
               errors |-> {"Background removal failed"},
               fault |-> Fault("remove", ss,
                               [ss EXCEPT !.bg_removed_image = None,
                                          !.active_image = None])]
         ELSE [ss |-> [ss EXCEPT !.bg_removed_image = remove(image),
                                 !.active_image = remove(image)],
               errors |-> {}, fault |-> NoFault]
    ELSE [ss |-> ss, errors |-> {}, fault |-> NoFault]

\* The "Remove Background" button and its try block.
RemoveBackground(ss, image, click, fail) ==
    IF click = "remove_bg"
    THEN IF fail = "remove"
         THEN [ss |-> ss, errors |-> {"Background removal failed"},
               fault |-> Fault("remove", ss, ss)]
         ELSE [ss |-> [ss EXCEPT !.bg_removed_image = remove(image),
                                 !.active_image = remove(image)],
               errors |-> {}, fault |-> NoFault]
    ELSE [ss |-> ss, errors |-> {}, fault |-> NoFault]

\* ClearAll with a slip: the pending start point is left behind.
ClearAll_keeps_start(ss, click) ==
    IF click = "clear" THEN [ss EXCEPT !.drawings = <<>>] ELSE ss

\* ClearAll with a slip: "select" also drops the pending start point.
ClearAll_on_select(ss, click) ==
    IF click = "clear"
    THEN [ss EXCEPT !.drawings = <<>>, !.start_point = NoPoint]
    ELSE IF ss.current_tool = "select"
    THEN [ss EXCEPT !.start_point = NoPoint]
    ELSE ss

\* The "Clear All Annotations" button.
ClearAll(ss, click) ==
    IF click = "clear"
    THEN [ss EXCEPT !.drawings = <<>>, !.start_point = NoPoint]
    ELSE ss

\* The handler of main's outer try.
ErrorProcessingImage(ss, shown_, pyplot_, point) ==
    Out(reset_session_state(ss), shown_, pyplot_, NoFigure,
        {"Error processing image"}, FALSE, NoCall,
        Fault(point, ss, reset_session_state(ss)))

main(ss, w, click, fail) ==
    IF w.uploaded_file = None
    THEN Out(ss, {}, NoFigure, NoFigure, {}, FALSE, NoCall, NoFault)
    ELSE
    LET image == verify_and_convert_image(w.uploaded_file) IN
    IF image = None
    THEN Out(ss, {}, NoFigure, NoFigure, {"Invalid image file"}, FALSE, NoCall,
             Fault("open", ss, ss))
    ELSE
    LET s46 == [ss EXCEPT !.original_filename = splitext(w.uploaded_file),
                          !.original_image = image]
    IN
    IF fail = "copy"
    THEN ErrorProcessingImage(s46, {}, NoFigure, "copy")
    ELSE
    LET s47 == [s46 EXCEPT !.active_image = image]
        rb == RemoveBackground(s47, image, click, fail)
        s65 == [rb.ss EXCEPT !.current_tool = w.tool_radio]
        s76 == ClearAll(s65, click)
        d == display_image_with_drawing_tools(s76, w, click, fail)
        sv == IF click = "save"
              THEN get_annotated_image(d.ss, fail)
              ELSE [buf |-> NoFigure, errors |-> {}, fault |-> NoFault]
    IN
    IF d.rerun
    THEN \* st.experimental_rerun() ends this execution here: the exception it
         \* raises is no Exception, so neither handler (lines 105, 165) sees it.
         Out(d.ss, Sidebar \cup d.shown, d.pyplot, NoFigure,
             rb.errors \cup d.errors, TRUE, d.call, NoFault)
    ELSE IF d.ss.bg_removed_image # None /\ fail = "bgsave"
    THEN [ErrorProcessingImage(d.ss, Sidebar \cup d.shown \cup {"save"},
                               d.pyplot, "bgsave")
            EXCEPT !.call = d.call, !.discarded = PointsHeld(s65) - PointsHeld(s76)]
    ELSE [Out(d.ss,
              Sidebar \cup d.shown \cup {"save"}
                  \cup (IF sv.buf # NoFigure THEN {"download_annotated"} ELSE {})
                  \cup (IF d.ss.bg_removed_image # None THEN {"download_bg"} ELSE {}),
              d.pyplot, sv.buf, rb.errors \cup d.errors \cup sv.errors,
              FALSE, d.call, FirstFault(rb.fault, d.fault, sv.fault))
            EXCEPT !.discarded = PointsHeld(s65) - PointsHeld(s76)]

----------------------------------------------------------------------------
(* The state machine: one action per user interaction.                     *)

\* The state of a new browser session (lines 11-26), nothing uploaded yet.
NewSession ==
    /\ drawings = <<>>
    /\ current_tool = "select"
    /\ bg_removed_image = None
    /\ original_image = None
    /\ active_image = None
    /\ start_point = NoPoint
    /\ fig = None
    /\ original_filename = None
    /\ uploaded_file = None
    /\ tool_radio = Tools[1]
    /\ color = DefaultColor
    /\ line_width = DefaultWidth
    /\ x = <<>>
    /\ y = <<>>
    /\ shown = {}
    /\ pyplot = NoFigure
    /\ download = NoFigure
    /\ errors = {}
    /\ clicked = "none"
    /\ call = NoCall
    /\ fault = NoFault
    /\ submitted = 0
    /\ discarded = 0
    /\ gesture_tool = None
    /\ gesture_parked = FALSE

Init == NewSession /\ follow_gesture = FALSE

\* The same start, with the history of the gesture in flight kept.
InitGesture == NewSession /\ follow_gesture = TRUE

\* The collaborators an execution triggered by `click` can reach: remove()
\* behind its button, the export behind "Save", and bg_removed_image.save
\* once a background-removed image is recorded.
Raises(click) ==
    {f \in FailPoints :
        /\ f = "remove" => click = "remove_bg"
        /\ f = "export" => click = "save"
        /\ f = "bgsave" => (bg_removed_image # None \/ click = "remove_bg")}

\* Number of points handed to handle_point_addition under "line" or "measure"
\* since the annotations were last cleared or the session last reset.
Submitted(r, click) ==
    IF r.fault.point \in {"copy", "bgsave"} THEN 0
    ELSE LET base == IF click = "clear" THEN 0 ELSE submitted IN
         IF r.call.called /\ r.call.before.current_tool \in {"line", "measure"}
         THEN base + 1
         ELSE base

\* The tool under which the first point of a gesture was submitted: of the
\* gesture in flight while a start point is pending, and of the gesture just
\* completed right after the call that completed it.
GestureTool(r) ==
    IF ~follow_gesture THEN None
    ELSE IF r.call.called /\ r.call.before.current_tool \in {"line", "measure"}
    THEN IF r.call.before.start_point = NoPoint
         THEN r.call.before.current_tool
         ELSE gesture_tool
    ELSE IF r.ss.start_point = NoPoint THEN None ELSE gesture_tool

\* Whether "select" was the tool at some time while the start point of the
\* gesture was pending: of the gesture in flight, and of the gesture just
\* completed right after the call that completed it.
GestureParked(r) ==
    IF ~follow_gesture THEN FALSE
    ELSE IF r.call.called /\ r.call.before.current_tool \in {"line", "measure"}
    THEN r.call.before.start_point # NoPoint /\ gesture_parked
    ELSE /\ r.ss.start_point # NoPoint
         /\ (gesture_parked \/ r.ss.current_tool = "select")

\* The state an interaction leaves: r is what its last execution returned.
Leave(r, w, click) ==
    /\ PointsHeld(r.call.after) <= MaxPoints
    /\ drawings' = r.ss.drawings
    /\ current_tool' = r.ss.current_tool
    /\ bg_removed_image' = r.ss.bg_removed_image
    /\ original_image' = r.ss.original_image
    /\ active_image' = r.ss.active_image
    /\ start_point' = r.ss.start_point
    /\ fig' = r.ss.fig
    /\ original_filename' = r.ss.original_filename
    /\ uploaded_file' = w.uploaded_file
    /\ tool_radio' = IF "tool" \in r.shown THEN w.tool_radio ELSE Tools[1]
    /\ color' = IF "color" \in r.shown THEN w.color ELSE DefaultColor
    /\ line_width' = IF "line_width" \in r.shown THEN w.line_width
                     ELSE DefaultWidth
    /\ x' = IF "x" \in r.shown
            THEN <<SliderValue(w.x, ImageWidth(r.pyplot.image))>> ELSE <<>>
    /\ y' = IF "y" \in r.shown
            THEN <<SliderValue(w.y, ImageHeight(r.pyplot.image))>> ELSE <<>>
    /\ shown' = r.shown
    /\ pyplot' = r.pyplot
    /\ download' = r.download
    /\ errors' = r.errors
    /\ clicked' = click
    /\ call' = r.call
    /\ fault' = r.fault
    /\ submitted' = Submitted(r, click)
    /\ discarded' = r.discarded
    /\ gesture_tool' = GestureTool(r)
    /\ gesture_parked' = GestureParked(r)
    /\ follow_gesture' = follow_gesture

\* The execution of main the interaction triggers, followed by the execution
\* st.experimental_rerun() triggers when the first one reached it.
Interact(w, click) ==
    \E fail \in Raises(click) :
        \E r1 \in {main(SS, w, click, fail)} :
            IF r1.rerun
            THEN \E fail2 \in Raises("none") :
                    \E r2 \in {main(r1.ss, w, "none", fail2)} :
                        Leave([r2 EXCEPT !.call = r1.call, !.rerun = TRUE],
                              w, click)
            ELSE Leave(r1, w, click)

Upload(file) ==
    /\ file # uploaded_file
    /\ Interact([W EXCEPT !.uploaded_file = file], "none")

RemoveUpload ==
    /\ uploaded_file # None
    /\ Interact([W EXCEPT !.uploaded_file = None], "none")

ClickRemoveBackground ==
    /\ "remove_bg" \in shown
    /\ Interact(W, "remove_bg")

SelectTool(tool) ==
    /\ "tool" \in shown
    /\ tool # tool_radio
    /\ Interact([W EXCEPT !.tool_radio = tool], "none")

PickColor(c) ==
    /\ "color" \in shown
    /\ c # color
    /\ Interact([W EXCEPT !.color = c], "none")

ClickClearAll ==
    /\ "clear" \in shown
    /\ Interact(W, "clear")

SlideX(v) ==
    /\ "x" \in shown
    /\ <<v>> # x
    /\ Interact([W EXCEPT !.x = <<v>>], "none")

ClickAddPoint ==
    /\ "add_point" \in shown
    /\ Interact(W, "add_point")

ClickSave ==
    /\ "save" \in shown
    /\ Interact(W, "save")

Next ==
    \/ \E file \in Files : Upload(file)
    \/ RemoveUpload
    \/ ClickRemoveBackground
    \/ \E tool \in ToolSet : SelectTool(tool)
    \/ \E c \in ColorPicks : PickColor(c)
    \/ ClickClearAll
    \/ \E v \in 0..ImageWidth(pyplot.image) : SlideX(v)
    \/ ClickAddPoint
    \/ ClickSave

Spec == Init /\ [][Next]_vars

SpecGesture == InitGesture /\ [][Next]_vars

----------------------------------------------------------------------------
(* handle_point_addition and the labels of the display on their own, over  *)
(* coordinates of an image larger than one pixel.                          *)

\* Coordinates the sliders of a 20 x 20 image can hand over.
CoordPicks == (0..MaxCoord) \cup {10, 20}

\* The session after "a.png" was uploaded and "line" or "measure" chosen.
InitLabel ==
    \E tool \in {"line", "measure"} :
        \E r \in {main(InitialSession,
                       [uploaded_file |-> "a.png", tool_radio |-> tool,
                        color |-> DefaultColor, line_width |-> DefaultWidth,
                        x |-> <<>>, y |-> <<>>],
                       "none", "none")} :
            /\ drawings = r.ss.drawings
            /\ current_tool = r.ss.current_tool
            /\ bg_removed_image = r.ss.bg_removed_image
            /\ original_image = r.ss.original_image
            /\ active_image = r.ss.active_image
            /\ start_point = r.ss.start_point
            /\ fig = r.ss.fig
            /\ original_filename = r.ss.original_filename
            /\ uploaded_file = "a.png"
            /\ tool_radio = tool
            /\ color = DefaultColor
            /\ line_width = DefaultWidth
            /\ x = <<>>
            /\ y = <<>>
            /\ shown = r.shown
            /\ pyplot = r.pyplot
            /\ download = r.download
            /\ errors = r.errors
            /\ clicked = "none"
            /\ call = NoCall
            /\ fault = NoFault
            /\ submitted = 0
            /\ discarded = 0
            /\ gesture_tool = None
            /\ gesture_parked = FALSE
            /\ follow_gesture = FALSE

\* "Add Point" with the sliders at (px, py): handle_point_addition, and the
\* display of the execution st.experimental_rerun() triggers after a commit.
AddPointAt(px, py) ==
    /\ drawings = <<>>
    /\ \E h \in {handle_point_addition(SS, px, py)} :
          \E d \in {display_image_with_drawing_tools(h.ss, W, "none", "none")} :
              /\ drawings' = h.ss.drawings
              /\ start_point' = h.ss.start_point
              /\ pyplot' = IF h.rerun THEN d.pyplot ELSE pyplot
              /\ call' = [called |-> TRUE, x |-> px, y |-> py,
                          before |-> SS, after |-> h.ss]
              /\ clicked' = "add_point"
              /\ submitted' = submitted + 1
    /\ UNCHANGED <<current_tool, bg_removed_image, original_image,
                   active_image, fig, original_filename, widgets, shown,
                   download, errors, fault, discarded, gesture_tool,
                   gesture_parked, follow_gesture>>

NextLabel == \E px \in CoordPicks, py \in CoordPicks : AddPointAt(px, py)

SpecLabel == InitLabel /\ [][NextLabel]_vars

----------------------------------------------------------------------------
(* Properties.                                                             *)

LineOrMeasure == {"line", "measure"}

\* The last interaction called handle_point_addition under "line"/"measure".
PointSubmitted == call.called /\ call.before.current_tool \in LineOrMeasure

\* ... and a start point was pending, so the call completed a gesture.
GestureCompleted == PointSubmitted /\ call.before.start_point # NoPoint

\* The last execution ran into main's outer handler (reset_session_state).
SessionReset == fault.point \in {"copy", "bgsave"}

\* C1: after n points submitted under "line" or "measure" since the session
\* last held no point (start, clear or reset), the list holds floor(n / 2)
\* annotations, and a start point is pending exactly when n is odd.
C1_PairsOfSubmissions ==
    /\ Len(drawings) = submitted \div 2
    /\ (start_point # NoPoint) <=> (submitted % 2 = 1)

C1_Witness ==
    /\ PointSubmitted
    /\ submitted = 3
    /\ Len(drawings) = 1
    /\ start_point # NoPoint

\* C2: a point submitted while the tool is "select" leaves the annotation
\* list and the pending start point as they were, whatever they were.
C2_SelectIgnoresPoint ==
    (call.called /\ call.before.current_tool = "select") =>
        /\ call.after.drawings = call.before.drawings
        /\ call.after.start_point = call.before.start_point
        /\ ~SessionReset =>
              /\ drawings = call.before.drawings
              /\ start_point = call.before.start_point

C2_Witness ==
    /\ call.called
    /\ call.before.current_tool = "select"
    /\ call.before.start_point # NoPoint
    /\ Len(call.before.drawings) = 1
    /\ start_point = call.before.start_point

\* C3: after "Clear All Annotations" the list is empty and no start point is
\* pending, whatever the session held; so the first point submitted under
\* "line"/"measure" after it starts a gesture and completes none.
C3_ClearAllEmpties ==
    /\ clicked = "clear" =>
          drawings = <<>> /\ start_point = NoPoint /\ submitted = 0
    /\ (PointSubmitted /\ submitted = 1) =>
          /\ call.before.start_point = NoPoint
          /\ call.after.start_point = <<call.x, call.y>>
          /\ call.after.drawings = <<>>

C3_Witness ==
    /\ clicked = "clear"
    /\ discarded = 3
    /\ current_tool = "measure"
    /\ fault.point = "none"

\* C4 (as claimed): loading a new base image leaves an empty annotation
\* list, no pending start point and the tool "select".
C4_LoadResetsSession ==
    [][(uploaded_file' # uploaded_file
          /\ verify_and_convert_image(uploaded_file') # None)
        => (drawings' = <<>> /\ start_point' = NoPoint
              /\ current_tool' = "select")]_vars

\* C5: a point (x, y) submitted under "line"/"measure" while p is pending
\* appends exactly one annotation at the end of the list, with start p, end
\* (x, y) and measure flag (tool = "measure"), and clears the pending point.
C5_SecondPointCommits ==
    GestureCompleted =>
        LET before == call.before.drawings
            after == call.after.drawings
            new == after[Len(after)]
        IN /\ Len(after) = Len(before) + 1
           /\ SubSeq(after, 1, Len(before)) = before
           /\ <<new.x0, new.y0>> = call.before.start_point
           /\ <<new.x1, new.y1>> = <<call.x, call.y>>
           /\ new.measure = (call.before.current_tool = "measure")
           /\ call.after.start_point = NoPoint

C5_Witness ==
    /\ GestureCompleted
    /\ call.before.current_tool = "measure"
    /\ Len(call.before.drawings) = 1
    /\ call.before.start_point # <<call.x, call.y>>
    /\ drawings = call.after.drawings

\* C6 (as claimed): the annotation a gesture commits has the color the
\* color picker holds and the width the width slider holds at that time.
C6_CommitUsesPickedStyle ==
    GestureCompleted =>
        LET new == call.after.drawings[Len(call.after.drawings)] IN
        new.color = color /\ new.width = line_width

\* C7 (as claimed): for the same image and annotation list the export draws
\* what the display draws: the same lines and the same distance labels.
C7_ExportMatchesDisplay ==
    (download # NoFigure /\ pyplot # NoFigure) =>
        /\ download.image = pyplot.image
        /\ download.lines = pyplot.lines
        /\ download.texts = pyplot.texts

\* C8: every step leaves the annotation list unchanged, or appends exactly
\* one annotation at its end, or empties it; no committed entry is changed,
\* moved or removed on its own.
C8_AppendOrClearOnly ==
    [][\/ drawings' = drawings
       \/ drawings' = <<>>
       \/ /\ Len(drawings') = Len(drawings) + 1
          /\ SubSeq(drawings', 1, Len(drawings)) = drawings]_vars

C8_Witness ==
    /\ GestureCompleted
    /\ drawings = call.after.drawings
    /\ Len(drawings) = 2
    /\ drawings[1] # drawings[2]

\* C9: when remove() raises, the failure is reported and the session is what
\* it was just before the call: same active image, same recorded
\* background-removed image, same annotations, pending point and tool.
C9_RemoveFailureKeepsSession ==
    fault.point = "remove" =>
        /\ "Background removal failed" \in errors
        /\ fault.after = fault.before
        /\ active_image = fault.before.active_image
        /\ bg_removed_image = fault.before.bg_removed_image
        /\ drawings = fault.before.drawings
        /\ start_point = fault.before.start_point

C9_Witness ==
    /\ fault.point = "remove"
    /\ clicked = "remove_bg"
    /\ bg_removed_image = None
    /\ Len(drawings) = 1
    /\ start_point # NoPoint

\* C10 (as claimed): whenever an external collaborator raises, the session
\* (annotations, pending point, tool, active image) is what it was just
\* before the failing step.
C10_FailureKeepsSession ==
    fault.point # "none" =>
        /\ fault.after.drawings = fault.before.drawings
        /\ fault.after.start_point = fault.before.start_point
        /\ fault.after.current_tool = fault.before.current_tool
        /\ fault.after.active_image = fault.before.active_image

\* The annotation the last call of handle_point_addition appended.
Committed == call.after.drawings[Len(call.after.drawings)]

\* The tool was changed between the two points of the gesture just completed.
ToolChangedInFlight ==
    GestureCompleted /\ gesture_tool # call.before.current_tool

\* C11 (as claimed): a tool change between the first and the second point of
\* a gesture does not reach that gesture: the annotation has the measure flag
\* of the tool under which its first point was submitted.
C11_FlagOfStartingTool ==
    GestureCompleted => Committed.measure = (gesture_tool = "measure")

\* C11 (amended): the tool is read when the second point is submitted: after
\* a change between "line" and "measure" in mid-gesture the annotation has the
\* measure flag of the new tool, not of the tool the gesture was started under.
C11_FlagOfCommittingTool ==
    ToolChangedInFlight =>
        /\ Committed.measure = (call.before.current_tool = "measure")
        /\ Committed.measure # (gesture_tool = "measure")

C11_Witness ==
    /\ ToolChangedInFlight
    /\ gesture_tool = "line"
    /\ call.before.current_tool = "measure"
    /\ Committed.measure
    /\ drawings = call.after.drawings

\* The session the figure on the page was drawn from: the current one, or
\* the one main's handler reset after the figure was shown.
Rendered == IF fault.point = "bgsave" THEN fault.before ELSE SS

\* Number of measure annotations among the first i of ds.
MeasuresUpTo(ds, i) == Cardinality({k \in 1..i : ds[k].measure})

\* C12: every figure the display shows replays the whole annotation list: one
\* line per annotation, in list order, with its coordinates, color and width;
\* one label per measure annotation, in list order; over the active image.
\* With an empty list it holds no line and no label.
C12_DisplayReplaysList ==
    pyplot # NoFigure =>
        LET ds == Rendered.drawings IN
        /\ pyplot.image = Rendered.active_image
        /\ Len(pyplot.lines) = Len(ds)
        /\ \A i \in 1..Len(ds) :
              /\ pyplot.lines[i].xdata = <<ds[i].x0, ds[i].x1>>
              /\ pyplot.lines[i].ydata = <<ds[i].y0, ds[i].y1>>
              /\ pyplot.lines[i].color = ds[i].color
              /\ pyplot.lines[i].linewidth = ds[i].width
        /\ Len(pyplot.texts) = MeasuresUpTo(ds, Len(ds))
        /\ \A i \in 1..Len(ds) :
              ds[i].measure =>
                  LET t == pyplot.texts[MeasuresUpTo(ds, i)] IN
                  /\ t.x = [num |-> ds[i].x0 + ds[i].x1, den |-> 2]
                  /\ t.y = [num |-> ds[i].y0 + ds[i].y1, den |-> 2]
                  /\ t.color = ds[i].color
        /\ ds = <<>> => (pyplot.lines = <<>> /\ pyplot.texts = <<>>)

C12_Witness ==
    /\ pyplot # NoFigure
    /\ Len(drawings) = 2
    /\ Len(pyplot.lines) = 2
    /\ Len(pyplot.texts) = 1
    /\ drawings[2].measure
    /\ pyplot.lines[1] # pyplot.lines[2]

\* The fields of an annotation record (lines 178-187).
DrawingFields ==
    {"type", "x0", "y0", "x1", "y1", "color", "width", "measure"}

\* "n.d px" for n.d = t / 10.
OneDecimalPx(t) == ToString(t \div 10) \o "." \o ToString(t % 10) \o " px"

\* t / 10 is the multiple of 0.1 nearest to sqrt(d2).
NearestTenth(t, d2) ==
    /\ (t = 0 \/ (2 * t - 1) * (2 * t - 1) < 400 * d2)
    /\ 400 * d2 < (2 * t + 1) * (2 * t + 1)

\* The label the figure on the page shows for annotation i.
LabelOf(i) == pyplot.texts[MeasuresUpTo(drawings, i)].s

\* C13: the label of every measure annotation is the distance between its
\* stored end points rounded to one decimal and followed by " px"; it is
\* (0,0)-(3,4) -> "5.0 px" and (10,10)-(10,20) -> "10.0 px"; the annotation
\* record holds the end points and the style only, no label.
C13_LabelIsRoundedDistance ==
    \A i \in 1..Len(drawings) :
        LET a == drawings[i]
            dx == a.x1 - a.x0
            dy == a.y1 - a.y0
            d2 == dx * dx + dy * dy
        IN /\ DOMAIN a = DrawingFields
           /\ a.measure =>
                /\ \E t \in 0..(10 * (2 * 20) + 10) :
                      NearestTenth(t, d2) /\ LabelOf(i) = OneDecimalPx(t)
                /\ (<<a.x0, a.y0, a.x1, a.y1>> = <<0, 0, 3, 4>>
                        => LabelOf(i) = "5.0 px")
                /\ (<<a.x0, a.y0, a.x1, a.y1>> = <<10, 10, 10, 20>>
                        => LabelOf(i) = "10.0 px")
           /\ ~a.measure => Len(pyplot.texts) = MeasuresUpTo(drawings, i)

C13_Witness ==
    /\ Len(drawings) = 1
    /\ drawings[1].measure
    /\ <<drawings[1].x0, drawings[1].y0>> = <<0, 0>>
    /\ <<drawings[1].x1, drawings[1].y1>> = <<3, 4>>
    /\ Len(pyplot.texts) = 1
    /\ pyplot.texts[1].s = "5.0 px"

\* C14: an interaction that changes the tool radio and does not reset the session
\* leaves the pending start point and the annotation list as they were; a
\* point submitted under "select" leaves the pending point; a pending point
\* goes away only when the next point under "line"/"measure" commits it as
\* the start of the new annotation, on "Clear All Annotations", or on a reset
\* of the session.
C14_ToolChangeKeepsPending ==
    [][/\ (tool_radio' # tool_radio /\ ~SessionReset')
            => (start_point' = start_point /\ drawings' = drawings)
       /\ (start_point # NoPoint /\ start_point' # start_point)
            => \/ /\ GestureCompleted'
                  /\ call'.before.start_point = start_point
                  /\ <<Committed'.x0, Committed'.y0>> = start_point
                  /\ start_point' = NoPoint
               \/ (clicked' = "clear" /\ start_point' = NoPoint)
               \/ (SessionReset' /\ start_point' = NoPoint)]_vars

\* A gesture completed after "select" was the tool while its start point
\* was pending.
C14_Witness ==
    /\ GestureCompleted
    /\ gesture_parked
    /\ drawings = call.after.drawings
    /\ <<Committed.x0, Committed.y0>> = call.before.start_point
    /\ start_point = NoPoint

\* C15 (as claimed): once the active image is the background-removed image,
\* it stays the active image over every interaction that keeps the upload
\* and does not reset the session.
C15_RemovedBackgroundStays ==
    [][(/\ bg_removed_image # None
        /\ active_image = bg_removed_image
        /\ uploaded_file' = uploaded_file
        /\ ~SessionReset')
       => active_image' = active_image]_vars

====
